---- MODULE Spec2Model ----
(***************************************************************************)
(* State-machine model of the scenario graph editor                        *)
(* (src/frontend/js/scenario_editor.js, class ScenarioEditor).             *)
(*                                                                         *)
(* Every event handler of the editor runs to completion on the single      *)
(* JavaScript thread, so each handler is one action.  The asynchronous     *)
(* operations (loadScenario, saveScenario) are split at their `await`.     *)
(*                                                                         *)
(* Numbers: JavaScript doubles are modelled as exact rationals <<n, d>>    *)
(* with d > 0 and gcd(n, d) = 1 (rounding error is abstracted away).       *)
(* Strings: the Cyrillic literals of the source are transliterated.        *)
(* Object identity: a node object is in this.nodes at most once and never  *)
(* returns once it has left, so a reference to a node object (held by      *)
(* `selectedNode` and by the properties panel) is modelled as the object's *)
(* index in this.nodes, as DETACHED when the object is no longer in the    *)
(* list, and as NULL for null.  Whatever shifts the list re-indexes the    *)
(* references; that is the encoding, not an assignment of the code.        *)
(***************************************************************************)
EXTENDS Integers, Sequences, FiniteSets, TLC

----------------------------------------------------------------------------
(* Exact rational arithmetic                                               *)

Abs(n) == IF n < 0 THEN -n ELSE n

RECURSIVE GCD(_, _)
GCD(a, b) == IF b = 0 THEN a ELSE GCD(b, a % b)

Norm(n, d) ==
    LET s == IF d < 0 THEN -1 ELSE 1
        g == GCD(Abs(n), Abs(d))
    IN  <<(s * n) \div g, (s * d) \div g>>

Q(n) == <<n, 1>>
RAdd(a, b) ==
    LET g == GCD(a[2], b[2])
    IN  Norm(a[1] * (b[2] \div g) + b[1] * (a[2] \div g), (a[2] \div g) * b[2])
RSub(a, b) == RAdd(a, <<-b[1], b[2]>>)
RMul(a, b) ==
    LET g1 == GCD(Abs(a[1]), b[2])
        g2 == GCD(Abs(b[1]), a[2])
    IN  Norm((a[1] \div g1) * (b[1] \div g2), (a[2] \div g2) * (b[2] \div g1))
RDiv(a, b) == RMul(a, Norm(b[2], b[1]))
RLe(a, b) ==
    LET g == GCD(a[2], b[2])
    IN  a[1] * (b[2] \div g) <= b[1] * (a[2] \div g)
RLt(a, b) == ~RLe(b, a)
RMax(a, b) == IF RLe(a, b) THEN b ELSE a
RMin(a, b) == IF RLe(a, b) THEN a ELSE b

----------------------------------------------------------------------------
(* Bounds of the model: the number of operations that create new values   *)
(* (a node added, a scenario loaded, a drag or pan move, a zoom step) in    *)
(* one run of each specification.                                          *)

MaxOps == 2            \* Spec
MaxViewOps == 3        \* SpecView
MaxValidateOps == 2    \* SpecValidate
MaxAddOps == 2         \* SpecAdd
MaxRoundTripOps == 2   \* SpecRoundTrip
MaxZoomOps == 5        \* SpecZoomIn
MaxTouchOps == 2       \* SpecTouch
MaxRequestOps == 3     \* SpecRequests
MaxFailureOps == 2     \* SpecFailure
MaxMouseOps == 3       \* SpecMouse
MaxFrameOps == 2       \* SpecFrame
MaxSelectOps == 2      \* SpecSelect
MaxCreateOps == 3      \* SpecCreate

----------------------------------------------------------------------------
(* Environment of the page                                                 *)

NULL == 0
DETACHED == -1

\* Date.now() at the first drop: any value above the ids 1..5 of the demo
\* scenario.
Epoch == 1000

\* canvas.getBoundingClientRect(): the canvas' place in the page.
RectLeft == 8
RectTop == 60

\* canvas.width / canvas.height, taken from the container on resize.
CanvasWidth == 800
CanvasHeight == 600

\* Pointer positions (clientX, clientY) the events are drawn from.
Points ==
    { <<RectLeft + 150, RectTop + 200>>,
      <<RectLeft + 260, RectTop + 240>> }

\* Finger distances (Math.hypot of the two touches) of a pinch move.
Distances == {0, 100, 110, 500}

\* The data-id of the scenario list items a load is started from.
ScenarioIds == {"1"}

Kinds == {"start", "state", "action", "condition", "event", "end"}

\* The markup of the create form's submit button as the page gives it, and
\* the markup handleCreateScenario shows while it waits.
SubmitLabel == "Sozdat"
SubmitSpinner == "<i class='fas fa-spinner fa-spin'></i> Sozdanie..."

\* The values the create form may hold in a field named id, each as the
\* number its digits spell (0: the form has no such value).
FormIds == {0, 7}

\* What a drop on the canvas may carry as text/plain: a palette item's
\* data-type, or any other dragged text.
DropTexts == Kinds \cup {"hello", ""}

\* The texts the editing specification drops.
DropSample == {"start", "state", "hello", ""}

----------------------------------------------------------------------------
(* Pure helpers of ScenarioEditor                                          *)

getNodeTitle(type) ==
    CASE type = "state" -> "Sostoyanie"
      [] type = "action" -> "Dejstvie"
      [] type = "condition" -> "Uslovie"
      [] type = "event" -> "Sobytie"
      [] type = "start" -> "Start"
      [] type = "end" -> "Konec"
      [] OTHER -> "Uzel"

getNodeColor(type) ==
    CASE type = "state" -> "#3498db"
      [] type = "action" -> "#2ecc71"
      [] type = "condition" -> "#f39c12"
      [] type = "event" -> "#9b59b6"
      [] type = "start" -> "#27ae60"
      [] type = "end" -> "#e74c3c"
      [] OTHER -> "#95a5a6"

\* baseProps of getDefaultProperties; `t` is the value of Date.now().
baseProps(type, t) ==
    [id |-> t, name |-> getNodeTitle(type), description |-> "", enabled |-> TRUE]

\* Records are functions: spread `...baseProps` is the function merge @@.
getDefaultProperties(type, t) ==
    CASE type = "state" ->
            [transitions |-> <<>>, onEnter |-> "", onExit |-> "", onUpdate |-> "",
             isInitial |-> (type = "start")] @@ baseProps(type, t)
      [] type = "action" ->
            [actionType |-> "custom", parameters |-> <<>>, delay |-> 0, repeat |-> 1]
                @@ baseProps(type, t)
      [] type = "condition" ->
            [conditionType |-> "boolean", expression |-> "", trueState |-> "",
             falseState |-> ""] @@ baseProps(type, t)
      [] type = "event" ->
            [eventType |-> "custom", trigger |-> "", targetState |-> "", data |-> <<>>]
                @@ baseProps(type, t)
      [] OTHER -> baseProps(type, t)

\* The object literal of addNode.
NewNode(type, x, y, t) ==
    [id |-> t, type |-> type, x |-> x, y |-> y,
     width |-> 120, height |-> 80,
     title |-> getNodeTitle(type), color |-> getNodeColor(type),
     properties |-> getDefaultProperties(type, t)]

----------------------------------------------------------------------------
VARIABLES
    nodes,              \* this.nodes: sequence of node objects
    connections,        \* this.connections: sequence of [from, to, color]
    selectedNode,       \* this.selectedNode: a node reference or NULL
    dragging,           \* this.dragging
    offsetX, offsetY,   \* this.offsetX, this.offsetY
    scale,              \* this.scale
    panX, panY,         \* this.panX, this.panY
    isPanning,          \* this.isPanning
    startPanX, startPanY,
    lastPinchDistance,  \* this.lastPinchDistance (0: undefined)
    currentScenario,    \* this.currentScenario: <<>> for null, else <<object>>
    panelNode,          \* node the properties panel's buttons are bound to
    loadQueue,          \* loadScenario calls suspended at their await
    pendingSaves,       \* saveScenario calls suspended at their await
    pendingRuns,        \* runScenario calls suspended at their await
    touchAt,            \* the screen: <<>>, or <<p>> for the one finger down at p
    zoomStart,          \* history: scale when the current run of zoom-in steps began
    zoomRun,            \* history: zoom-in steps since another handler set the scale
    pinching,           \* the screen: two fingers are down and have moved
    submitBtn,          \* the create form's submit button: [disabled, innerHTML]
    createQueue,        \* handleCreateScenario calls suspended at their await
    scenarioData,       \* history: scenarioData as saveScenario last built it
    now,                \* milliseconds after Epoch at the last Date.now()
    ops,                \* operations counted against the bound of the run
    notified            \* notifications shown by the handler that ran last

vars == <<nodes, connections, selectedNode, dragging, offsetX, offsetY, scale,
          panX, panY, isPanning, startPanX, startPanY, lastPinchDistance,
          currentScenario, panelNode, loadQueue, pendingSaves, scenarioData,
          now, ops, notified, pendingRuns, touchAt, zoomStart, zoomRun,
          pinching, submitBtn, createQueue>>

graphVars == <<nodes, connections>>
viewVars == <<scale, panX, panY>>
saveVars == <<pendingSaves, scenarioData>>
zoomVars == <<zoomStart, zoomRun>>
createVars == <<submitBtn, createQueue>>
pointerVars == <<selectedNode, dragging, offsetX, offsetY, isPanning,
                 startPanX, startPanY>>

\* The state the constructor leaves.
Init ==
    /\ nodes = <<>>
    /\ connections = <<>>
    /\ selectedNode = NULL
    /\ dragging = FALSE
    /\ offsetX = Q(0) /\ offsetY = Q(0)
    /\ scale = Q(1)
    /\ panX = Q(0) /\ panY = Q(0)
    /\ isPanning = FALSE
    /\ startPanX = 0 /\ startPanY = 0
    /\ lastPinchDistance = 0
    /\ currentScenario = <<>>
    /\ panelNode = NULL
    /\ loadQueue = <<>>
    /\ pendingSaves = 0
    /\ scenarioData = <<>>
    /\ pendingRuns = 0
    /\ touchAt = <<>>
    /\ zoomStart = Q(1)
    /\ zoomRun = 0
    /\ pinching = FALSE
    /\ submitBtn = [disabled |-> FALSE, innerHTML |-> SubmitLabel]
    /\ createQueue = <<>>
    /\ now = 0
    /\ ops = 0
    /\ notified = <<>>

\* VRARPlatform.showNotification(message, type)
Note(message, type) == [message |-> message, type |-> type, issues |-> <<>>]

\* The inverse viewport transform applied to a pointer position.
ToGraphX(clientX) == RDiv(RSub(Q(clientX - RectLeft), panX), scale)
ToGraphY(clientY) == RDiv(RSub(Q(clientY - RectTop), panY), scale)

----------------------------------------------------------------------------
(* Nodes: addNode, getNodeAt, removeNode                                   *)

\* addNode that puts the new node first.
addNode_unshift(type, x, y, t) ==
    /\ nodes' = <<NewNode(type, x, y, Epoch + t)>> \o nodes
    /\ panelNode' = 1

\* addNode(type, x, y) at clock reading t: push the new node, then
\* showNodeProperties(node) binds the properties panel to it.
addNode(type, x, y, t) ==
    /\ nodes' = Append(nodes, NewNode(type, x, y, Epoch + t))
    /\ panelNode' = Len(nodes) + 1

\* The canvas' drop listener of setupTools; dt is the time that has passed
\* since the clock was last read (both Date.now() calls of one addNode are
\* taken to fall into the same millisecond).
Drop(text, p, dt) ==
    /\ IF text # ""
         THEN /\ addNode(text, ToGraphX(p[1]), ToGraphY(p[2]), now + dt)
              /\ now' = now + dt
              /\ ops' = ops + 1
         ELSE UNCHANGED <<nodes, panelNode, now, ops>>
    /\ notified' = <<>>
    /\ UNCHANGED <<connections, viewVars, pointerVars, lastPinchDistance,
                   currentScenario, loadQueue, saveVars,
                   pendingRuns, touchAt, zoomVars, pinching, createVars>>

\* Whether reference r is to an object of the list ns.
Live(ns, r) == r \in 1..Len(ns)

\* getNodeAt(x, y): the scan from the last node down; the node object, or null.
RECURSIVE getNodeAtFrom(_, _, _, _)
getNodeAtFrom(ns, i, x, y) ==
    IF i < 1 THEN NULL
    ELSE IF /\ RLe(ns[i].x, x) /\ RLe(x, RAdd(ns[i].x, Q(ns[i].width)))
            /\ RLe(ns[i].y, y) /\ RLe(y, RAdd(ns[i].y, Q(ns[i].height)))
         THEN i
         ELSE getNodeAtFrom(ns, i - 1, x, y)

\* getNodeAt scanning from the first node up.
RECURSIVE getNodeAtUp(_, _, _, _)
getNodeAtUp(ns, i, x, y) ==
    IF i > Len(ns) THEN NULL
    ELSE IF /\ RLe(ns[i].x, x) /\ RLe(x, RAdd(ns[i].x, Q(ns[i].width)))
            /\ RLe(ns[i].y, y) /\ RLe(y, RAdd(ns[i].y, Q(ns[i].height)))
         THEN i
         ELSE getNodeAtUp(ns, i + 1, x, y)

getNodeAt_firstWins(x, y) == getNodeAtUp(nodes, 1, x, y)

getNodeAt(x, y) == getNodeAtFrom(nodes, Len(nodes), x, y)

\* this.nodes.indexOf(node): 0 stands for -1.
indexOf(ns, r) == IF Live(ns, r) THEN r ELSE 0

\* A filter that drops only the connections that enter the node.
filterConnections_toOnly(conns, id) == SelectSeq(conns, LAMBDA conn : conn.to # id)

\* this.connections.filter(conn => conn.from !== id && conn.to !== id)
RECURSIVE filterConnections(_, _)
filterConnections(conns, id) ==
    IF conns = <<>> THEN <<>>
    ELSE IF Head(conns).from # id /\ Head(conns).to # id
         THEN <<Head(conns)>> \o filterConnections(Tail(conns), id)
         ELSE filterConnections(Tail(conns), id)

\* this.nodes.splice(index, 1)
splice(ns, index) == SubSeq(ns, 1, index - 1) \o SubSeq(ns, index + 1, Len(ns))

\* removeNode without the filter of the connections.
removeNode_keepConnections(r) ==
    LET index == indexOf(nodes, r)
    IN  IF index # 0
          THEN /\ nodes' = splice(nodes, index)
               /\ UNCHANGED connections
          ELSE UNCHANGED <<nodes, connections>>

\* removeNode(node): the node leaves the list and the connections are
\* filtered by its id, or nothing happens when the object is not in the list.
removeNode(r) ==
    LET index == indexOf(nodes, r)
    IN  IF index # 0
          THEN /\ nodes' = splice(nodes, index)
               /\ connections' = filterConnections(connections, nodes[index].id)
          ELSE UNCHANGED <<nodes, connections>>

\* Reference r after removeNode(removed): the removed object is detached and
\* the objects behind it move up by one.
AfterRemove(r, removed) ==
    IF ~Live(nodes, removed) \/ ~Live(nodes, r) THEN r
    ELSE IF r = removed THEN DETACHED
    ELSE IF r > removed THEN r - 1
    ELSE r

\* Reference r after this.nodes was replaced by a new list.
AfterReplace(r) == IF r = NULL THEN NULL ELSE DETACHED

----------------------------------------------------------------------------
(* Pointer and keyboard handlers                                           *)

\* onMouseDown(e)
onMouseDown(p, button, ctrlKey) ==
    LET x == ToGraphX(p[1])
        y == ToGraphY(p[2])
        hit == getNodeAt(x, y)
    IN  /\ selectedNode' = hit
        /\ IF hit # NULL
             THEN /\ dragging' = TRUE
                  /\ offsetX' = RSub(x, nodes[hit].x)
                  /\ offsetY' = RSub(y, nodes[hit].y)
                  /\ UNCHANGED <<isPanning, startPanX, startPanY>>
             ELSE IF button = 1 \/ ctrlKey
               THEN /\ isPanning' = TRUE
                    /\ startPanX' = p[1]
                    /\ startPanY' = p[2]
                    /\ UNCHANGED <<dragging, offsetX, offsetY>>
               ELSE UNCHANGED <<dragging, offsetX, offsetY, isPanning,
                                startPanX, startPanY>>

MouseDown(p, button, ctrlKey) ==
    /\ onMouseDown(p, button, ctrlKey)
    /\ notified' = <<>>
    /\ UNCHANGED <<graphVars, viewVars, ops, lastPinchDistance,
                   currentScenario, panelNode, loadQueue, now, saveVars,
                   pendingRuns, touchAt, zoomVars, pinching, createVars>>

\* onMouseMove that keeps measuring a pan from where it began.
onMouseMove_fromStart(p) ==
    LET x == ToGraphX(p[1])
        y == ToGraphY(p[2])
        index == indexOf(nodes, selectedNode)
    IN  IF dragging /\ selectedNode # NULL
          THEN /\ nodes' = IF index # 0
                             THEN [nodes EXCEPT ![index].x = RSub(x, offsetX),
                                                ![index].y = RSub(y, offsetY)]
                             ELSE nodes
               /\ UNCHANGED <<panX, panY, startPanX, startPanY>>
          ELSE IF isPanning
            THEN /\ panX' = RAdd(panX, Q(p[1] - startPanX))
                 /\ panY' = RAdd(panY, Q(p[2] - startPanY))
                 /\ UNCHANGED <<nodes, startPanX, startPanY>>
            ELSE UNCHANGED <<nodes, panX, panY, startPanX, startPanY>>

\* onMouseMove that puts the dragged node's corner under the pointer.
onMouseMove_noOffset(p) ==
    LET x == ToGraphX(p[1])
        y == ToGraphY(p[2])
        index == indexOf(nodes, selectedNode)
    IN  IF dragging /\ selectedNode # NULL
          THEN /\ nodes' = IF index # 0
                             THEN [nodes EXCEPT ![index].x = x, ![index].y = y]
                             ELSE nodes
               /\ UNCHANGED <<panX, panY, startPanX, startPanY>>
          ELSE IF isPanning
            THEN /\ panX' = RAdd(panX, Q(p[1] - startPanX))
                 /\ panY' = RAdd(panY, Q(p[2] - startPanY))
                 /\ startPanX' = p[1]
                 /\ startPanY' = p[2]
                 /\ UNCHANGED nodes
            ELSE UNCHANGED <<nodes, panX, panY, startPanX, startPanY>>

\* onMouseMove(e): the selected node follows the pointer, or the viewport pans.
\* A selected node that is no longer in the list is moved all the same, but
\* nothing reads it afterwards.
onMouseMove(p) ==
    LET x == ToGraphX(p[1])
        y == ToGraphY(p[2])
        index == indexOf(nodes, selectedNode)
    IN  IF dragging /\ selectedNode # NULL
          THEN /\ nodes' = IF index # 0
                             THEN [nodes EXCEPT ![index].x = RSub(x, offsetX),
                                                ![index].y = RSub(y, offsetY)]
                             ELSE nodes
               /\ UNCHANGED <<panX, panY, startPanX, startPanY>>
          ELSE IF isPanning
            THEN /\ panX' = RAdd(panX, Q(p[1] - startPanX))
                 /\ panY' = RAdd(panY, Q(p[2] - startPanY))
                 /\ startPanX' = p[1]
                 /\ startPanY' = p[2]
                 /\ UNCHANGED nodes
            ELSE UNCHANGED <<nodes, panX, panY, startPanX, startPanY>>

\* Whether a move drags or pans.
Moving == (dragging /\ selectedNode # NULL) \/ isPanning

MouseMove(p) ==
    /\ ops' = IF Moving THEN ops + 1 ELSE ops
    /\ onMouseMove(p)
    /\ notified' = <<>>
    /\ UNCHANGED <<connections, scale, selectedNode, dragging, offsetX, offsetY,
                   isPanning, lastPinchDistance,
                   currentScenario, panelNode, loadQueue, now, saveVars,
                   pendingRuns, touchAt, zoomVars, pinching, createVars>>

\* onMouseUp that ends the drag and the pan and keeps the selection.
onMouseUp_keepSelection ==
    /\ dragging' = FALSE
    /\ isPanning' = FALSE
    /\ UNCHANGED selectedNode

\* onMouseUp(e)
onMouseUp ==
    /\ dragging' = FALSE
    /\ isPanning' = FALSE
    /\ selectedNode' = NULL

MouseUp ==
    /\ onMouseUp
    /\ notified' = <<>>
    /\ UNCHANGED <<graphVars, viewVars, offsetX, offsetY, startPanX, startPanY,
                   ops, lastPinchDistance, currentScenario, panelNode,
                   loadQueue, now, saveVars,
                   pendingRuns, touchAt, zoomVars, pinching, createVars>>

\* onTouchStart(e) with one touch: onMouseDown of a synthetic mousedown,
\* whose button is 0 and whose ctrlKey is false.
TouchStart1(p) ==
    /\ touchAt = <<>>
    /\ onMouseDown(p, 0, FALSE)
    /\ touchAt' = <<p>>
    /\ notified' = <<>>
    /\ UNCHANGED <<graphVars, viewVars, ops, lastPinchDistance,
                   currentScenario, panelNode, loadQueue, now, saveVars,
                   pendingRuns, zoomVars,
                   pinching, createVars>>

\* onTouchMove(e) with one touch: onMouseMove of a synthetic mousemove.
TouchMove1(p) ==
    /\ touchAt # <<>>
    /\ ops' = IF Moving THEN ops + 1 ELSE ops
    /\ onMouseMove(p)
    /\ touchAt' = <<p>>
    /\ notified' = <<>>
    /\ UNCHANGED <<connections, scale, selectedNode, dragging, offsetX, offsetY,
                   isPanning, lastPinchDistance,
                   currentScenario, panelNode, loadQueue, now, saveVars,
                   pendingRuns, zoomVars,
                   pinching, createVars>>

\* onTouchEnd(e), as the fingers of a drag or of a pinch are lifted: onMouseUp.
TouchEnd ==
    /\ touchAt # <<>> \/ pinching
    /\ onMouseUp
    /\ touchAt' = <<>>
    /\ pinching' = FALSE
    /\ notified' = <<>>
    /\ UNCHANGED <<graphVars, viewVars, offsetX, offsetY, startPanX, startPanY,
                   ops, lastPinchDistance, currentScenario, panelNode,
                   loadQueue, now, saveVars, pendingRuns, zoomVars,
                   createVars>>

\* The Delete/Backspace handler that leaves the removed node selected.
KeyDelete_keepSelection(key) ==
    /\ key \in {"Delete", "Backspace"}
    /\ IF selectedNode # NULL
         THEN /\ removeNode(selectedNode)
              /\ selectedNode' = AfterRemove(selectedNode, selectedNode)
         ELSE UNCHANGED <<nodes, connections, selectedNode>>
    /\ notified' = <<>>
    /\ panelNode' = IF selectedNode # NULL THEN AfterRemove(panelNode, selectedNode)
                                           ELSE panelNode
    /\ UNCHANGED <<viewVars, dragging, offsetX, offsetY, isPanning, startPanX,
                   startPanY, ops, lastPinchDistance, currentScenario,
                   loadQueue, now, saveVars,
                   pendingRuns, touchAt, zoomVars, pinching, createVars>>

\* onKeyDown(e) with Delete or Backspace
KeyDelete(key) ==
    /\ key \in {"Delete", "Backspace"}
    /\ IF selectedNode # NULL
         THEN /\ removeNode(selectedNode)
              /\ selectedNode' = NULL
         ELSE UNCHANGED <<nodes, connections, selectedNode>>
    /\ notified' = <<>>
    /\ panelNode' = IF selectedNode # NULL THEN AfterRemove(panelNode, selectedNode)
                                           ELSE panelNode
    /\ UNCHANGED <<viewVars, dragging, offsetX, offsetY, isPanning, startPanX,
                   startPanY, ops, lastPinchDistance, currentScenario,
                   loadQueue, now, saveVars,
                   pendingRuns, touchAt, zoomVars, pinching, createVars>>

\* onKeyDown(e) with Escape
KeyEscape ==
    /\ selectedNode' = NULL
    /\ notified' = <<>>
    /\ UNCHANGED <<graphVars, viewVars, dragging, offsetX, offsetY, isPanning,
                   startPanX, startPanY, ops, lastPinchDistance,
                   currentScenario, panelNode, loadQueue, now, saveVars,
                   pendingRuns, touchAt, zoomVars, pinching, createVars>>

\* The click listener of the properties panel's delete button, bound to the
\* node the panel was rendered for; the panel then shows its placeholder.
PanelDelete ==
    /\ panelNode # NULL
    /\ removeNode(panelNode)
    /\ panelNode' = NULL
    /\ selectedNode' = AfterRemove(selectedNode, panelNode)
    /\ notified' = <<>>
    /\ UNCHANGED <<viewVars, dragging, offsetX, offsetY, isPanning, startPanX,
                   startPanY, ops, lastPinchDistance, currentScenario,
                   loadQueue, now, saveVars,
                   pendingRuns, touchAt, zoomVars, pinching, createVars>>

----------------------------------------------------------------------------
(* Viewport: wheel, pinch, zoom buttons, centerView                        *)

\* Math.max(0.1, Math.min(5, s))
clamp(s) == RMax(<<1, 10>>, RMin(Q(5), s))

\* onWheel that corrects the pan by the requested factor, not the clamped one.
onWheel_requestedFactor(deltaY, p) ==
    LET mouseX == Q(p[1] - RectLeft)
        mouseY == Q(p[2] - RectTop)
        zoomed == IF deltaY < 0 THEN RMul(scale, <<11, 10>>)
                                ELSE RDiv(scale, <<11, 10>>)
        scaleChange == RDiv(zoomed, scale)
    IN  /\ scale' = clamp(zoomed)
        /\ panX' = RSub(mouseX, RMul(RSub(mouseX, panX), scaleChange))
        /\ panY' = RSub(mouseY, RMul(RSub(mouseY, panY), scaleChange))

\* onWheel(e): zoom by 1 + zoomFactor = 1.1 toward the pointer.
onWheel(deltaY, p) ==
    LET mouseX == Q(p[1] - RectLeft)
        mouseY == Q(p[2] - RectTop)
        oldScale == scale
        zoomed == IF deltaY < 0 THEN RMul(scale, <<11, 10>>)
                                ELSE RDiv(scale, <<11, 10>>)
        newScale == clamp(zoomed)
        scaleChange == RDiv(newScale, oldScale)
    IN  /\ scale' = newScale
        /\ panX' = RSub(mouseX, RMul(RSub(mouseX, panX), scaleChange))
        /\ panY' = RSub(mouseY, RMul(RSub(mouseY, panY), scaleChange))

\* One more zoom-in step of the current run.
zoomRunGoesOn == zoomRun' = zoomRun + 1 /\ UNCHANGED zoomStart

\* The scale was set otherwise: a new run begins at it.
zoomRunBegins == zoomStart' = scale' /\ zoomRun' = 0

Wheel(deltaY, p) ==
    /\ onWheel(deltaY, p)
    /\ IF deltaY < 0 THEN zoomRunGoesOn ELSE zoomRunBegins
    /\ ops' = ops + 1
    /\ notified' = <<>>
    /\ UNCHANGED <<graphVars, pointerVars, lastPinchDistance,
                   currentScenario, panelNode, loadQueue, now, saveVars,
                   pendingRuns, touchAt, pinching, createVars>>

\* handlePinchZoom that clamps from above only.
handlePinchZoom_noFloor(currentDistance) ==
    /\ IF lastPinchDistance # 0
         THEN LET delta == currentDistance - lastPinchDistance
                  zoomFactor == <<delta, 100>>
              IN  scale' = RMin(Q(5), RMul(scale, RAdd(Q(1), zoomFactor)))
         ELSE UNCHANGED scale
    /\ lastPinchDistance' = currentDistance

\* handlePinchZoom(e) for two touches currentDistance apart.
handlePinchZoom(currentDistance) ==
    /\ IF lastPinchDistance # 0
         THEN LET delta == currentDistance - lastPinchDistance
                  zoomFactor == <<delta, 100>>
              IN  scale' = clamp(RMul(scale, RAdd(Q(1), zoomFactor)))
         ELSE UNCHANGED scale
    /\ lastPinchDistance' = currentDistance

\* onTouchMove(e) with two touches.
TouchMove2(currentDistance) ==
    /\ handlePinchZoom(currentDistance)
    /\ pinching' = TRUE
    /\ IF lastPinchDistance # 0 THEN zoomRunBegins ELSE UNCHANGED zoomVars
    /\ ops' = IF lastPinchDistance # 0 THEN ops + 1 ELSE ops
    /\ notified' = <<>>
    /\ UNCHANGED <<graphVars, panX, panY, pointerVars, currentScenario, panelNode, loadQueue, now, saveVars,
                   pendingRuns, touchAt, createVars>>

\* zoomIn that applies the limit before the factor.
zoomIn_limitFirst == scale' = RMul(RMin(Q(5), scale), <<11, 10>>)

\* zoomIn()
zoomIn == scale' = RMin(Q(5), RMul(scale, <<11, 10>>))

\* zoomOut()
zoomOut == scale' = RMax(<<1, 10>>, RDiv(scale, <<11, 10>>))

ZoomIn ==
    /\ zoomIn
    /\ zoomRunGoesOn
    /\ ops' = ops + 1
    /\ notified' = <<>>
    /\ UNCHANGED <<graphVars, panX, panY, pointerVars, lastPinchDistance, currentScenario, panelNode, loadQueue, now, saveVars,
                   pendingRuns, touchAt, pinching, createVars>>

\* The zoom-out button that keeps the canvas midpoint where it is.
ZoomOut_aboutMidpoint ==
    /\ zoomOut
    /\ panX' = RSub(RDiv(Q(CanvasWidth), Q(2)),
                    RDiv(RSub(RDiv(Q(CanvasWidth), Q(2)), panX), <<11, 10>>))
    /\ panY' = RSub(RDiv(Q(CanvasHeight), Q(2)),
                    RDiv(RSub(RDiv(Q(CanvasHeight), Q(2)), panY), <<11, 10>>))
    /\ zoomRunBegins
    /\ ops' = ops + 1
    /\ notified' = <<>>
    /\ UNCHANGED <<graphVars, pointerVars, lastPinchDistance, currentScenario,
                   panelNode, loadQueue, now, saveVars, pendingRuns, touchAt,
                   pinching, createVars>>

\* The click listener of zoomOutBtn.
ZoomOut ==
    /\ zoomOut
    /\ zoomRunBegins
    /\ ops' = ops + 1
    /\ notified' = <<>>
    /\ UNCHANGED <<graphVars, panX, panY, pointerVars, lastPinchDistance, currentScenario, panelNode, loadQueue, now, saveVars,
                   pendingRuns, touchAt, pinching, createVars>>

\* The bounding box centerView folds over this.nodes (a non-empty list).
RECURSIVE boundingBox(_, _)
boundingBox(ns, i) ==
    LET n == ns[i]
        own == [minX |-> n.x, minY |-> n.y,
                maxX |-> RAdd(n.x, Q(n.width)), maxY |-> RAdd(n.y, Q(n.height))]
    IN  IF i = 1 THEN own
        ELSE LET b == boundingBox(ns, i - 1)
             IN  [minX |-> RMin(b.minX, own.minX), minY |-> RMin(b.minY, own.minY),
                  maxX |-> RMax(b.maxX, own.maxX), maxY |-> RMax(b.maxY, own.maxY)]

\* centerView that subtracts the bounding box's centre without scaling it.
centerView_unscaled(ns, s) ==
    IF Len(ns) = 0
      THEN <<RDiv(Q(CanvasWidth), Q(2)), RDiv(Q(CanvasHeight), Q(2))>>
      ELSE LET b == boundingBox(ns, Len(ns))
               centerX == RDiv(RAdd(b.minX, b.maxX), Q(2))
               centerY == RDiv(RAdd(b.minY, b.maxY), Q(2))
           IN  <<RSub(RDiv(Q(CanvasWidth), Q(2)), centerX),
                 RSub(RDiv(Q(CanvasHeight), Q(2)), centerY)>>

\* centerView() on node list ns at scale s: the new <<panX, panY>>.
centerView(ns, s) ==
    IF Len(ns) = 0
      THEN <<RDiv(Q(CanvasWidth), Q(2)), RDiv(Q(CanvasHeight), Q(2))>>
      ELSE LET b == boundingBox(ns, Len(ns))
               centerX == RDiv(RAdd(b.minX, b.maxX), Q(2))
               centerY == RDiv(RAdd(b.minY, b.maxY), Q(2))
           IN  <<RSub(RDiv(Q(CanvasWidth), Q(2)), RMul(centerX, s)),
                 RSub(RDiv(Q(CanvasHeight), Q(2)), RMul(centerY, s))>>

\* The click listener of centerViewBtn.
CenterView ==
    /\ panX' = centerView(nodes, scale)[1]
    /\ panY' = centerView(nodes, scale)[2]
    /\ notified' = <<>>
    /\ UNCHANGED <<graphVars, scale, pointerVars, ops, lastPinchDistance,
                   currentScenario, panelNode, loadQueue, now, saveVars,
                   pendingRuns, touchAt, zoomVars, pinching, createVars>>

----------------------------------------------------------------------------
(* Workspace: clear, load, validate                                        *)

\* clearWorkspace that leaves the connections.
clearWorkspace_keepConnections(confirmed) ==
    IF ~confirmed
      THEN /\ UNCHANGED <<nodes, connections, selectedNode, panelNode>>
           /\ notified' = <<>>
      ELSE /\ nodes' = <<>>
           /\ UNCHANGED connections
           /\ selectedNode' = NULL
           /\ panelNode' = NULL
           /\ notified' = <<Note("Rabochaya oblast ochishchena", "success")>>

\* clearWorkspace(); `confirmed` is the answer of confirm().
clearWorkspace(confirmed) ==
    IF ~confirmed
      THEN /\ UNCHANGED <<nodes, connections, selectedNode, panelNode>>
           /\ notified' = <<>>
      ELSE /\ nodes' = <<>>
           /\ connections' = <<>>
           /\ selectedNode' = NULL
           /\ panelNode' = NULL
           /\ notified' = <<Note("Rabochaya oblast ochishchena", "success")>>

ClearWorkspace(confirmed) ==
    /\ clearWorkspace(confirmed)
    /\ UNCHANGED <<viewVars, dragging, offsetX, offsetY, isPanning, startPanX,
                   startPanY, ops, lastPinchDistance, currentScenario,
                   loadQueue, now, saveVars,
                   pendingRuns, touchAt, zoomVars, pinching, createVars>>

\* The demo data loadScenario installs.
DemoNode(id, type, x, y, title, color, description) ==
    [id |-> id, type |-> type, x |-> Q(x), y |-> Q(y),
     width |-> 120, height |-> 80, title |-> title, color |-> color,
     properties |-> [name |-> title, description |-> description]]

DemoNodes ==
    << DemoNode(1, "start", 100, 100, "Nachalo", "#27ae60", "Nachalnaya tochka scenariya"),
       DemoNode(2, "state", 300, 100, "Zagruzka", "#3498db", "Zagruzka resursov"),
       DemoNode(3, "action", 500, 100, "Pokazat UI", "#2ecc71", "Otobrazhenie interfejsa"),
       DemoNode(4, "condition", 300, 250, "Proverka", "#f39c12", "Proverka uslovij"),
       DemoNode(5, "end", 500, 250, "Konec", "#e74c3c", "Konechnaya tochka scenariya") >>

DemoConnections ==
    << [from |-> 1, to |-> 2, color |-> "#3498db"],
       [from |-> 2, to |-> 3, color |-> "#2ecc71"],
       [from |-> 3, to |-> 4, color |-> "#f39c12"],
       [from |-> 4, to |-> 5, color |-> "#e74c3c"] >>

\* loadScenario(id) up to its await: the timer is started.
LoadStart(id) ==
    /\ loadQueue' = Append(loadQueue, id)
    /\ ops' = ops + 1
    /\ notified' = <<Note("Zagruzka scenariya...", "info")>>
    /\ UNCHANGED <<graphVars, viewVars, pointerVars, lastPinchDistance, currentScenario, panelNode, now, saveVars,
                   pendingRuns, touchAt, zoomVars, pinching, createVars>>

\* loadScenario that adds the loaded nodes and connections to those present.
LoadComplete_merge ==
    /\ loadQueue # <<>>
    /\ loadQueue' = Tail(loadQueue)
    /\ nodes' = nodes \o DemoNodes
    /\ connections' = connections \o DemoConnections
    /\ currentScenario' = <<[id |-> Head(loadQueue), name |-> "Demo scenarij"]>>
    /\ panX' = centerView(nodes \o DemoNodes, scale)[1]
    /\ panY' = centerView(nodes \o DemoNodes, scale)[2]
    /\ notified' = <<Note("Scenarij zagruzhen", "success")>>
    /\ UNCHANGED <<selectedNode, panelNode, scale, dragging, offsetX, offsetY,
                   isPanning, startPanX, startPanY,
                   ops, lastPinchDistance, now, saveVars,
                   pendingRuns, touchAt, zoomVars, pinching, createVars>>

\* loadScenario(id) after its await; equal timeouts expire in the order set.
LoadComplete ==
    /\ loadQueue # <<>>
    /\ loadQueue' = Tail(loadQueue)
    /\ nodes' = DemoNodes
    /\ connections' = DemoConnections
    /\ currentScenario' = <<[id |-> Head(loadQueue), name |-> "Demo scenarij"]>>
    /\ panX' = centerView(DemoNodes, scale)[1]
    /\ panY' = centerView(DemoNodes, scale)[2]
    /\ notified' = <<Note("Scenarij zagruzhen", "success")>>
    /\ selectedNode' = AfterReplace(selectedNode)
    /\ panelNode' = AfterReplace(panelNode)
    /\ UNCHANGED <<scale, dragging, offsetX, offsetY, isPanning, startPanX, startPanY,
                   ops, lastPinchDistance, now, saveVars,
                   pendingRuns, touchAt, zoomVars, pinching, createVars>>

\* loadScenario(id) after its await on a page that has no element with id
\* scenarioTitle: the lookup's null makes the assignment to textContent
\* throw after the demo data are in place, and the catch block reports it.
LoadFail ==
    /\ loadQueue # <<>>
    /\ loadQueue' = Tail(loadQueue)
    /\ nodes' = DemoNodes
    /\ connections' = DemoConnections
    /\ currentScenario' = <<[id |-> Head(loadQueue), name |-> "Demo scenarij"]>>
    /\ notified' = <<Note("Ne udalos zagruzit scenarij", "error")>>
    /\ selectedNode' = AfterReplace(selectedNode)
    /\ panelNode' = AfterReplace(panelNode)
    /\ UNCHANGED <<viewVars, dragging, offsetX, offsetY, isPanning, startPanX,
                   startPanY, ops, lastPinchDistance, now, saveVars,
                   pendingRuns, touchAt, zoomVars, pinching, createVars>>

\* isolatedTitles without the exemption of start and end nodes.
RECURSIVE isolatedTitles_noExempt(_, _)
isolatedTitles_noExempt(ns, connectedNodeIds) ==
    IF ns = <<>> THEN <<>>
    ELSE IF Head(ns).id \notin connectedNodeIds
         THEN <<Head(ns).title>> \o isolatedTitles_noExempt(Tail(ns), connectedNodeIds)
         ELSE isolatedTitles_noExempt(Tail(ns), connectedNodeIds)

\* n.title of every node of ns that is neither connected nor start/end.
RECURSIVE isolatedTitles(_, _)
isolatedTitles(ns, connectedNodeIds) ==
    IF ns = <<>> THEN <<>>
    ELSE IF /\ Head(ns).id \notin connectedNodeIds
            /\ Head(ns).type # "start"
            /\ Head(ns).type # "end"
         THEN <<Head(ns).title>> \o isolatedTitles(Tail(ns), connectedNodeIds)
         ELSE isolatedTitles(Tail(ns), connectedNodeIds)

\* issuesOf that looks for a start node twice.
issuesOf_endFromStart(ns, conns) ==
    LET hasStart == \E i \in 1..Len(ns) : ns[i].type = "start"
        hasEnd == \E i \in 1..Len(ns) : ns[i].type = "start"
        connectedNodeIds == {conns[i].from : i \in 1..Len(conns)}
                              \cup {conns[i].to : i \in 1..Len(conns)}
        isolated == isolatedTitles(ns, connectedNodeIds)
    IN  (IF ~hasStart THEN <<[text |-> "Otsutstvuet nachalnyj uzel", titles |-> <<>>]>>
                      ELSE <<>>)
        \o (IF ~hasEnd THEN <<[text |-> "Otsutstvuet konechnyj uzel", titles |-> <<>>]>>
                       ELSE <<>>)
        \o (IF Len(isolated) > 0
              THEN <<[text |-> "Najdeny izolirovannye uzly", titles |-> isolated]>>
              ELSE <<>>)

\* The issues list validateScenario builds.
issuesOf(ns, conns) ==
    LET hasStart == \E i \in 1..Len(ns) : ns[i].type = "start"
        hasEnd == \E i \in 1..Len(ns) : ns[i].type = "end"
        connectedNodeIds == {conns[i].from : i \in 1..Len(conns)}
                              \cup {conns[i].to : i \in 1..Len(conns)}
        isolated == isolatedTitles(ns, connectedNodeIds)
    IN  (IF ~hasStart THEN <<[text |-> "Otsutstvuet nachalnyj uzel", titles |-> <<>>]>>
                      ELSE <<>>)
        \o (IF ~hasEnd THEN <<[text |-> "Otsutstvuet konechnyj uzel", titles |-> <<>>]>>
                       ELSE <<>>)
        \o (IF Len(isolated) > 0
              THEN <<[text |-> "Najdeny izolirovannye uzly", titles |-> isolated]>>
              ELSE <<>>)

\* validateScenario(): it has no await, so it runs to its end in one step.
validateScenario ==
    IF Len(nodes) = 0
      THEN notified' = <<Note("Net scenariya dlya proverki", "warning")>>
      ELSE LET issues == issuesOf(nodes, connections)
           IN  notified' =
                 << Note("Proverka scenariya...", "info"),
                    IF Len(issues) = 0
                      THEN Note("Scenarij proshel proverku uspeshno", "success")
                      ELSE [message |-> "Najdeny problemy", type |-> "warning",
                            issues |-> issues] >>

ValidateScenario ==
    /\ validateScenario
    /\ UNCHANGED <<graphVars, viewVars, pointerVars, ops, lastPinchDistance,
                   currentScenario, panelNode, loadQueue, now, saveVars,
                   pendingRuns, touchAt, zoomVars, pinching, createVars>>

\* saveScenario without the check for an empty workspace.
SaveStart_noEmptyCheck ==
    /\ scenarioData' =
          <<[nodes |-> nodes, connections |-> connections,
             viewport |-> [scale |-> scale, panX |-> panX, panY |-> panY]]>>
    /\ pendingSaves' = pendingSaves + 1
    /\ ops' = ops + 1
    /\ notified' = <<Note("Sohranenie scenariya...", "info")>>
    /\ UNCHANGED <<graphVars, viewVars, pointerVars, lastPinchDistance,
                   currentScenario, panelNode, loadQueue, now,
                   pendingRuns, touchAt, zoomVars, pinching, createVars>>

\* saveScenario() up to its await: the warning on an empty workspace, or
\* scenarioData is built and the timer is started.
SaveStart ==
    /\ IF Len(nodes) = 0
         THEN /\ notified' = <<Note("Net dannyh dlya sohraneniya", "warning")>>
              /\ UNCHANGED <<pendingSaves, scenarioData, ops>>
         ELSE /\ scenarioData' =
                    <<[nodes |-> nodes, connections |-> connections,
                       viewport |-> [scale |-> scale, panX |-> panX, panY |-> panY]]>>
              /\ pendingSaves' = pendingSaves + 1
              /\ ops' = ops + 1
              /\ notified' = <<Note("Sohranenie scenariya...", "info")>>
    /\ UNCHANGED <<graphVars, viewVars, pointerVars, lastPinchDistance,
                   currentScenario, panelNode, loadQueue, now,
                   pendingRuns, touchAt, zoomVars, pinching, createVars>>

\* onKeyDown(e) with Ctrl+S: saveScenario() is called as by the button.
KeyCtrlS == SaveStart

\* saveScenario() after its await.
SaveDone ==
    /\ pendingSaves > 0
    /\ pendingSaves' = pendingSaves - 1
    /\ notified' = <<Note("Scenarij sohranen uspeshno", "success")>>
    /\ UNCHANGED <<graphVars, viewVars, pointerVars, ops, lastPinchDistance,
                   currentScenario, panelNode, loadQueue, now, scenarioData,
                   pendingRuns, touchAt, zoomVars, pinching, createVars>>

\* runScenario() up to its await: the warning on an empty workspace, or the
\* timer is started.
RunStart ==
    /\ IF Len(nodes) = 0
         THEN /\ notified' = <<Note("Net scenariya dlya zapuska", "warning")>>
              /\ UNCHANGED <<pendingRuns, ops>>
         ELSE /\ pendingRuns' = pendingRuns + 1
              /\ ops' = ops + 1
              /\ notified' = <<Note("Zapusk scenariya...", "info")>>
    /\ UNCHANGED <<graphVars, viewVars, pointerVars, lastPinchDistance,
                   currentScenario, panelNode, loadQueue, now, saveVars,
                   touchAt, zoomVars, pinching, createVars>>

\* runScenario() after its await.
RunDone ==
    /\ pendingRuns > 0
    /\ pendingRuns' = pendingRuns - 1
    /\ notified' = <<Note("Scenarij vypolnen uspeshno", "success")>>
    /\ UNCHANGED <<graphVars, viewVars, pointerVars, ops, lastPinchDistance,
                   currentScenario, panelNode, loadQueue, now, saveVars,
                   touchAt, zoomVars, pinching, createVars>>

----------------------------------------------------------------------------
(* The create-scenario form                                                *)

\* A finally block that enables the button and leaves the markup it shows.
finallyBlock_keepLabel(originalText) ==
    submitBtn' = [disabled |-> FALSE, innerHTML |-> submitBtn.innerHTML]

\* The finally block of handleCreateScenario.
finallyBlock(originalText) ==
    submitBtn' = [disabled |-> FALSE, innerHTML |-> originalText]

\* The form's submit event: handleCreateScenario(form) up to its await. The
\* browser submits no form whose submit button is disabled. A File among the
\* form's entries has no trim method: the loop over the entries throws, the
\* catch block reports it and the finally block runs, all before the
\* handler returns; otherwise the call is suspended with the button
\* disabled.
CreateSubmit(hasFile, dataId) ==
    /\ ~submitBtn.disabled
    /\ IF hasFile
         THEN /\ finallyBlock(submitBtn.innerHTML)
              /\ notified' = <<Note("Ne udalos sozdat scenarij", "error")>>
              /\ UNCHANGED createQueue
         ELSE /\ submitBtn' = [disabled |-> TRUE, innerHTML |-> SubmitSpinner]
              /\ createQueue' = Append(createQueue,
                                       [originalText |-> submitBtn.innerHTML,
                                        id |-> dataId])
              /\ notified' = <<>>
    /\ ops' = ops + 1
    /\ UNCHANGED <<graphVars, viewVars, pointerVars, lastPinchDistance,
                   currentScenario, panelNode, loadQueue, now, saveVars,
                   pendingRuns, touchAt, zoomVars, pinching>>

\* handleCreateScenario after its await: the success notification, then
\* loadScenario(data.id || Date.now()) runs up to its own await and is not
\* waited for, then the finally block.
CreateDone ==
    /\ createQueue # <<>>
    /\ LET call == Head(createQueue)
           id == IF call.id # 0 THEN call.id ELSE Epoch + now
       IN  /\ loadQueue' = Append(loadQueue, id)
           /\ finallyBlock(call.originalText)
    /\ createQueue' = Tail(createQueue)
    /\ notified' = <<Note("Scenarij sozdan uspeshno", "success"),
                     Note("Zagruzka scenariya...", "info")>>
    /\ UNCHANGED <<graphVars, viewVars, pointerVars, ops, lastPinchDistance,
                   currentScenario, panelNode, now, saveVars,
                   pendingRuns, touchAt, zoomVars, pinching>>

----------------------------------------------------------------------------
(* Specifications                                                          *)

\* A clock tick between two drops shows only when a live node bears the
\* current reading: otherwise the next id is fresh either way.
Elapsed == IF \E i \in 1..Len(nodes) : nodes[i].id = Epoch + now THEN {0, 1} ELSE {0}

\* The handlers that select, move and delete nodes.
PointerNext ==
    \/ \E p \in Points, button \in {0, 1}, ctrlKey \in BOOLEAN : MouseDown(p, button, ctrlKey)
    \/ (Moving => ops < MaxOps) /\ \E p \in Points : MouseMove(p)
    \/ MouseUp
    \/ \E key \in {"Delete", "Backspace"} : KeyDelete(key)
    \/ KeyEscape
    \/ PanelDelete

\* The editor: every handler that edits the graph, with the zoom controls.
Next ==
    \/ ops < MaxOps /\ \E text \in DropSample, p \in Points, dt \in Elapsed : Drop(text, p, dt)
    \/ PointerNext
    \/ ops < MaxOps /\ \E deltaY \in {-100, 100}, p \in Points : Wheel(deltaY, p)
    \/ ops < MaxOps /\ ZoomIn
    \/ ops < MaxOps /\ ZoomOut
    \/ CenterView
    \/ \E confirmed \in BOOLEAN : ClearWorkspace(confirmed)
    \/ ops < MaxOps /\ \E id \in ScenarioIds : LoadStart(id)
    \/ LoadComplete

Spec == Init /\ [][Next]_vars

\* The viewport: every handler that zooms or pans.
NextView ==
    \/ ops < MaxViewOps /\ \E deltaY \in {-100, 0, 100}, p \in Points : Wheel(deltaY, p)
    \/ /\ lastPinchDistance # 0 => ops < MaxViewOps
       /\ \E currentDistance \in Distances : TouchMove2(currentDistance)
    \/ ops < MaxViewOps /\ ZoomIn
    \/ ops < MaxViewOps /\ ZoomOut
    \/ CenterView
    \/ \E p \in Points, button \in {0, 1}, ctrlKey \in BOOLEAN : MouseDown(p, button, ctrlKey)
    \/ (Moving => ops < MaxViewOps) /\ \E p \in Points : MouseMove(p)
    \/ MouseUp

SpecView == Init /\ [][NextView]_vars

\* Validation of the graphs that drops, loads and deletions build.
NextValidate ==
    \/ /\ ops < MaxValidateOps
       /\ \E text \in {"start", "end", "state"}, p \in Points, dt \in Elapsed : Drop(text, p, dt)
    \/ \E p \in Points : MouseDown(p, 0, FALSE)
    \/ \E key \in {"Delete", "Backspace"} : KeyDelete(key)
    \/ PanelDelete
    \/ ops < MaxValidateOps /\ \E id \in ScenarioIds : LoadStart(id)
    \/ LoadComplete
    \/ ValidateScenario

SpecValidate == Init /\ [][NextValidate]_vars

\* Drops of every text under a viewport that wheel and pan have changed.
NextAdd ==
    \/ ops < MaxAddOps /\ \E text \in DropTexts, p \in Points, dt \in Elapsed : Drop(text, p, dt)
    \/ ops < MaxAddOps /\ \E deltaY \in {-100, 100}, p \in Points : Wheel(deltaY, p)
    \/ \E p \in Points, button \in {0, 1}, ctrlKey \in BOOLEAN : MouseDown(p, button, ctrlKey)
    \/ (Moving => ops < MaxAddOps) /\ \E p \in Points : MouseMove(p)
    \/ MouseUp
    \/ ops < MaxAddOps /\ \E id \in ScenarioIds : LoadStart(id)
    \/ LoadComplete

SpecAdd == Init /\ [][NextAdd]_vars

\* The round trip: the graph is edited, then saved, then a scenario is loaded.
NextRoundTrip ==
    \/ /\ scenarioData = <<>>
       /\ \/ /\ ops < MaxRoundTripOps
             /\ \E text \in DropSample, p \in Points, dt \in Elapsed : Drop(text, p, dt)
          \/ \E p \in Points, button \in {0, 1}, ctrlKey \in BOOLEAN :
                MouseDown(p, button, ctrlKey)
          \/ (Moving => ops < MaxRoundTripOps) /\ \E p \in Points : MouseMove(p)
          \/ MouseUp
          \/ ops < MaxRoundTripOps /\ ZoomIn
    \/ scenarioData = <<>> /\ SaveStart
    \/ SaveDone
    \/ /\ scenarioData # <<>> /\ pendingSaves = 0 /\ loadQueue = <<>>
       /\ ops < MaxRoundTripOps + 2
       /\ \E id \in ScenarioIds : LoadStart(id)
    \/ LoadComplete

SpecRoundTrip == Init /\ [][NextRoundTrip]_vars

\* Runs of zoom-in steps, by button and by wheel, from the scales that a
\* pinch or a zoom-out step leaves.
NextZoomIn ==
    \/ /\ lastPinchDistance # 0 => ops < MaxZoomOps
       /\ \E currentDistance \in Distances : TouchMove2(currentDistance)
    \/ ops < MaxZoomOps /\ ZoomIn
    \/ ops < MaxZoomOps /\ ZoomOut
    \/ ops < MaxZoomOps /\ \E deltaY \in {-100, 100}, p \in Points : Wheel(deltaY, p)

SpecZoomIn == Init /\ [][NextZoomIn]_vars

\* Touch input on a canvas that drops have put nodes on.
NextTouch ==
    \/ /\ ops < MaxTouchOps
       /\ \E text \in DropSample, p \in Points, dt \in Elapsed : Drop(text, p, dt)
    \/ \E p \in Points : TouchStart1(p)
    \/ (Moving => ops < MaxTouchOps) /\ \E p \in Points : TouchMove1(p)
    \/ TouchEnd
    \/ /\ lastPinchDistance # 0 => ops < MaxTouchOps
       /\ \E currentDistance \in Distances : TouchMove2(currentDistance)

SpecTouch == Init /\ [][NextTouch]_vars

\* The toolbar's save, run and validate, and Ctrl+S.
NextRequests ==
    \/ /\ ops < MaxRequestOps
       /\ \E text \in {"start", "state"}, p \in Points, dt \in Elapsed : Drop(text, p, dt)
    \/ (Len(nodes) # 0 => ops < MaxRequestOps) /\ SaveStart
    \/ (Len(nodes) # 0 => ops < MaxRequestOps) /\ KeyCtrlS
    \/ SaveDone
    \/ (Len(nodes) # 0 => ops < MaxRequestOps) /\ RunStart
    \/ RunDone
    \/ ValidateScenario
    \/ ClearWorkspace(TRUE)

SpecRequests == Init /\ [][NextRequests]_vars

\* Loads on a page that may lack the title element.
NextFailure ==
    \/ /\ ops < MaxFailureOps
       /\ \E text \in DropSample, p \in Points, dt \in Elapsed : Drop(text, p, dt)
    \/ \E p \in Points : MouseDown(p, 0, FALSE)
    \/ MouseUp
    \/ ops < MaxFailureOps /\ ZoomIn
    \/ ops < MaxFailureOps /\ \E id \in ScenarioIds : LoadStart(id)
    \/ LoadComplete
    \/ LoadFail

SpecFailure == Init /\ [][NextFailure]_vars

\* Mouse input on a canvas that drops have put nodes on.
NextMouse ==
    \/ /\ ops < MaxMouseOps
       /\ \E text \in {"state"}, p \in Points, dt \in Elapsed : Drop(text, p, dt)
    \/ \E p \in Points, button \in {0, 1}, ctrlKey \in BOOLEAN : MouseDown(p, button, ctrlKey)
    \/ (Moving => ops < MaxMouseOps) /\ \E p \in Points : MouseMove(p)
    \/ MouseUp
    \/ ops < MaxMouseOps /\ ZoomOut

SpecMouse == Init /\ [][NextMouse]_vars

\* The viewport's handlers on a canvas that holds dropped and loaded nodes.
NextFrame ==
    \/ /\ ops < MaxFrameOps
       /\ \E text \in {"state"}, p \in Points, dt \in Elapsed : Drop(text, p, dt)
    \/ ops < MaxFrameOps /\ loadQueue = <<>> /\ \E id \in ScenarioIds : LoadStart(id)
    \/ LoadComplete
    \/ ops < MaxFrameOps /\ \E deltaY \in {-100, 100}, p \in Points : Wheel(deltaY, p)
    \/ /\ lastPinchDistance # 0 => ops < MaxFrameOps
       /\ \E currentDistance \in {100, 110} : TouchMove2(currentDistance)
    \/ TouchEnd
    \/ ops < MaxFrameOps /\ ZoomIn
    \/ ops < MaxFrameOps /\ ZoomOut
    \/ CenterView
    \/ \E p \in Points, button \in {0, 1} : MouseDown(p, button, FALSE)
    \/ (Moving => ops < MaxFrameOps) /\ \E p \in Points : MouseMove(p)
    \/ MouseUp

SpecFrame == Init /\ [][NextFrame]_vars

\* Selection: the pointer, touch and key handlers, with every handler that
\* adds, removes or replaces nodes.
NextSelect ==
    \/ /\ ops < MaxSelectOps
       /\ \E text \in {"state"}, p \in Points, dt \in Elapsed : Drop(text, p, dt)
    \/ \E p \in Points, button \in {0, 1} : MouseDown(p, button, FALSE)
    \/ (Moving => ops < MaxSelectOps) /\ \E p \in Points : MouseMove(p)
    \/ MouseUp
    \/ \E p \in Points : TouchStart1(p)
    \/ TouchEnd
    \/ \E key \in {"Delete", "Backspace"} : KeyDelete(key)
    \/ KeyEscape
    \/ PanelDelete
    \/ \E confirmed \in BOOLEAN : ClearWorkspace(confirmed)
    \/ ops < MaxSelectOps /\ \E id \in ScenarioIds : LoadStart(id)
    \/ LoadComplete

SpecSelect == Init /\ [][NextSelect]_vars

\* The create form, with drops on the canvas and the loads it starts. The
\* timer a suspended handleCreateScenario waits for expires.
NextCreate ==
    \/ /\ ops < MaxCreateOps
       /\ \E text \in {"state"}, p \in Points, dt \in Elapsed : Drop(text, p, dt)
    \/ /\ ops < MaxCreateOps
       /\ \E hasFile \in BOOLEAN, dataId \in FormIds : CreateSubmit(hasFile, dataId)
    \/ CreateDone
    \/ LoadComplete

SpecCreate == Init /\ [][NextCreate]_vars /\ WF_vars(CreateDone)

----------------------------------------------------------------------------
(* Properties                                                              *)

\* A step in which removeNode is applied to the live node at index r, from
\* the Delete/Backspace key or from the properties panel's delete button.
RemoveNodeStep(r) ==
    \/ selectedNode = r /\ \E key \in {"Delete", "Backspace"} : KeyDelete(key)
    \/ panelNode = r /\ PanelDelete

\* The list ns without its element at index r.
Without(ns, r) == [i \in 1..(Len(ns) - 1) |-> IF i < r THEN ns[i] ELSE ns[i + 1]]

\* C1: after removeNode is applied to a live node n, in the same step n has
\* left the node list (the other nodes stay, in order) and no connection has
\* from or to equal to n's id.
C1_RemoveNodeAtomic ==
    [][\A r \in 1..Len(nodes) :
          RemoveNodeStep(r) =>
            /\ nodes' = Without(nodes, r)
            /\ \A i \in 1..Len(connections') :
                 connections'[i].from # nodes[r].id /\ connections'[i].to # nodes[r].id]_vars

\* C1 witness: a node of the loaded scenario that had a connection has been
\* removed (connections only disappear with a node).
C1_Witness ==
    /\ currentScenario # <<>>
    /\ Len(nodes) = 4
    /\ Len(connections) = 3
    /\ \A i \in 1..Len(nodes) : nodes[i].id # 1

\* C2: the ids of the live nodes are pairwise distinct.
C2_IdsDistinct ==
    \A i, j \in 1..Len(nodes) : i # j => nodes[i].id # nodes[j].id

\* The nodes whose box contains the graph-space point (x, y), edges included.
NodesAt(x, y) ==
    {i \in 1..Len(nodes) :
        /\ RLe(nodes[i].x, x) /\ RLe(RSub(x, Q(nodes[i].width)), nodes[i].x)
        /\ RLe(nodes[i].y, y) /\ RLe(RSub(y, Q(nodes[i].height)), nodes[i].y)}

\* C5: getNodeAt returns the last node of the list among those whose box
\* contains the point, and null exactly when there is none.
C5_HitTestTopmost ==
    \A p \in Points :
        LET x == ToGraphX(p[1])
            y == ToGraphY(p[2])
            hits == NodesAt(x, y)
        IN  getNodeAt(x, y) =
              IF hits = {} THEN NULL ELSE CHOOSE i \in hits : \A j \in hits : j <= i

\* C5 witness: two nodes overlap under a pointer position, and the later one
\* is hit.
C5_Witness ==
    \E p \in Points :
        /\ Cardinality(NodesAt(ToGraphX(p[1]), ToGraphY(p[2]))) >= 2
        /\ getNodeAt(ToGraphX(p[1]), ToGraphY(p[2])) = Len(nodes)

\* C8: a confirmed clearWorkspace empties nodes and connections and clears
\* the selection; a declined one leaves nodes, connections, selection and
\* viewport as they were.
C8_ClearIffConfirmed ==
    [][\A confirmed \in BOOLEAN :
          ClearWorkspace(confirmed) =>
            IF confirmed
              THEN nodes' = <<>> /\ connections' = <<>> /\ selectedNode' = NULL
              ELSE UNCHANGED <<nodes, connections, selectedNode, scale, panX, panY>>]_vars

\* C8 witness: the workspace has been cleared after a scenario was loaded.
C8_Witness ==
    /\ notified = <<Note("Rabochaya oblast ochishchena", "success")>>
    /\ currentScenario # <<>>
    /\ nodes = <<>>
    /\ connections = <<>>

----------------------------------------------------------------------------
(* The viewport                                                            *)

\* C3: the scale factor stays within [0.1, 5] whatever wheel, pinch and
\* button zooming is done.
C3_ScaleBounded == RLe(<<1, 10>>, scale) /\ RLe(scale, Q(5))

\* C3 witness: a pinch that closes the fingers by more than 100 px asked for
\* a scale of zero or less and the scale is at its lower limit.
C3_Witness == scale = <<1, 10>> /\ lastPinchDistance = 100

\* C4: a wheel step keeps the graph point under the cursor where it is on
\* both axes, also when the scale was clamped: the new pan is
\* a - (a - pan) * (scale' / scale) for the cursor's canvas position a.
C4_WheelAnchor ==
    [][\A deltaY \in {-100, 0, 100}, p \in Points :
          Wheel(deltaY, p) =>
            LET ax == Q(p[1] - RectLeft)
                ay == Q(p[2] - RectTop)
                ratio == RDiv(scale', scale)
            IN  /\ RDiv(RSub(ax, panX'), scale') = RDiv(RSub(ax, panX), scale)
                /\ RDiv(RSub(ay, panY'), scale') = RDiv(RSub(ay, panY), scale)
                /\ panX' = RSub(ax, RMul(RSub(ax, panX), ratio))
                /\ panY' = RSub(ay, RMul(RSub(ay, panY), ratio))]_vars

\* C4 witness: a wheel step from scale 4.9 was clamped to 5 (a change by
\* 50/49 instead of 1.1) and the pan followed the clamped change.
C4_Witness ==
    /\ scale = Q(5)
    /\ \E p \in Points :
          /\ panX = RDiv(Q(RectLeft - p[1]), Q(49))
          /\ panY = RDiv(Q(RectTop - p[2]), Q(49))

----------------------------------------------------------------------------
(* Validation                                                              *)

\* validateScenario was the last handler to run.
Validated ==
    /\ notified # <<>>
    /\ notified[1].message \in {"Proverka scenariya...", "Net scenariya dlya proverki"}

\* The issues that the notifications shown carry.
ReportedIssues ==
    UNION {{notified[k].issues[i] : i \in 1..Len(notified[k].issues)} :
              k \in 1..Len(notified)}

Reports(text) == \E issue \in ReportedIssues : issue.text = text

HasKind(type) == \E i \in 1..Len(nodes) : nodes[i].type = type

\* The nodes that no connection names and that are neither start nor end.
IsolatedNodes ==
    {i \in 1..Len(nodes) :
        /\ nodes[i].type \notin {"start", "end"}
        /\ \A c \in 1..Len(connections) :
              connections[c].from # nodes[i].id /\ connections[c].to # nodes[i].id}

IsolatedIssues == {issue \in ReportedIssues : issue.text = "Najdeny izolirovannye uzly"}

\* C6 as stated: validation reports a missing start node exactly when no
\* node is a start node, and a missing end node exactly when none is an end
\* node.
C6_MissingExactly ==
    Validated =>
        /\ Reports("Otsutstvuet nachalnyj uzel") <=> ~HasKind("start")
        /\ Reports("Otsutstvuet konechnyj uzel") <=> ~HasKind("end")

\* C6 amended: on a workspace that has nodes, validation reports a missing
\* start node exactly when no node is a start node and a missing end node
\* exactly when none is an end node; on the empty workspace it only warns
\* that there is nothing to validate and reports no issue.
C6_MissingExactlyNonEmpty ==
    Validated =>
        IF Len(nodes) = 0
          THEN /\ notified = <<Note("Net scenariya dlya proverki", "warning")>>
               /\ ReportedIssues = {}
          ELSE /\ Reports("Otsutstvuet nachalnyj uzel") <=> ~HasKind("start")
               /\ Reports("Otsutstvuet konechnyj uzel") <=> ~HasKind("end")

\* C6 witness: a start node and a state node are there, no end node, and
\* validation reported the missing end and not a missing start.
C6_Witness ==
    /\ Validated
    /\ HasKind("start") /\ HasKind("state") /\ ~HasKind("end")
    /\ Reports("Otsutstvuet konechnyj uzel")
    /\ ~Reports("Otsutstvuet nachalnyj uzel")

\* C7 as stated: the number of isolated-node issues that validation reports
\* equals the number of isolated nodes that are neither start nor end.
C7_IssuePerIsolatedNode ==
    Validated => Cardinality(IsolatedIssues) = Cardinality(IsolatedNodes)

\* The titles of the nodes of the index set S, in list order.
RECURSIVE TitlesFrom(_, _)
TitlesFrom(i, S) ==
    IF i > Len(nodes) THEN <<>>
    ELSE IF i \in S THEN <<nodes[i].title>> \o TitlesFrom(i + 1, S)
         ELSE TitlesFrom(i + 1, S)

\* C7 amended: validation of a workspace that has nodes reports a single
\* isolated-nodes issue exactly when some node that is neither start nor end
\* is named by no connection; that issue lists the titles of exactly these
\* nodes, one entry per node in list order, so start and end nodes and
\* connected nodes are never listed.
C7_OneIssueListsIsolated ==
    Validated =>
        /\ Cardinality(IsolatedIssues) = IF IsolatedNodes = {} THEN 0 ELSE 1
        /\ \A issue \in IsolatedIssues :
              /\ issue.titles = TitlesFrom(1, IsolatedNodes)
              /\ Len(issue.titles) = Cardinality(IsolatedNodes)

\* C7 witness: two unconnected state nodes were validated and one issue
\* lists both.
C7_Witness ==
    /\ Validated
    /\ Cardinality(IsolatedNodes) = 2
    /\ \E issue \in IsolatedIssues : Len(issue.titles) = 2

----------------------------------------------------------------------------
(* Persistence                                                             *)

\* C9: after a save and a load that followed it, the nodes, the connections
\* and the viewport are those of the time of the save.
C9_RoundTrip ==
    (scenarioData # <<>> /\ notified = <<Note("Scenarij zagruzhen", "success")>>) =>
        /\ nodes = scenarioData[1].nodes
        /\ connections = scenarioData[1].connections
        /\ scale = scenarioData[1].viewport.scale
        /\ panX = scenarioData[1].viewport.panX
        /\ panY = scenarioData[1].viewport.panY

----------------------------------------------------------------------------
(* addNode                                                                 *)

\* The attributes that a node of the given kind carries besides name,
\* description and enabled.
KindKeys(type) ==
    CASE type = "state" -> {"transitions", "onEnter", "onExit", "onUpdate", "isInitial"}
      [] type = "action" -> {"actionType", "parameters", "delay", "repeat"}
      [] type = "condition" -> {"conditionType", "expression", "trueState", "falseState"}
      [] type = "event" -> {"eventType", "trigger", "targetState", "data"}
      [] OTHER -> {}

\* C10: addNode(kind, x, y) appends exactly one node at the end of the list,
\* at (x, y), 120 wide and 80 high, with the title, color and properties of
\* its kind, and leaves the nodes that were there, the connections and the
\* viewport as they were.
C10_AddNodeAppends ==
    [][\A text \in DropTexts \ {""}, p \in Points, dt \in {0, 1} :
          Drop(text, p, dt) =>
            LET node == nodes'[Len(nodes')]
            IN  /\ Len(nodes') = Len(nodes) + 1
                /\ SubSeq(nodes', 1, Len(nodes)) = nodes
                /\ node.type = text
                /\ node.x = ToGraphX(p[1]) /\ node.y = ToGraphY(p[2])
                /\ node.width = 120 /\ node.height = 80
                /\ node.title = getNodeTitle(text)
                /\ node.color = getNodeColor(text)
                /\ node.properties.name = node.title
                /\ node.properties.description = "" /\ node.properties.enabled
                /\ {"name", "description", "enabled"} \cup KindKeys(text)
                      \subseteq DOMAIN node.properties
                /\ UNCHANGED <<connections, scale, panX, panY>>]_vars

\* C10 witness: a condition node has been added behind the five nodes and
\* under the four connections of a loaded scenario.
C10_Witness ==
    /\ Len(nodes) = 6
    /\ Len(connections) = 4
    /\ nodes[6].type = "condition"
    /\ nodes[6].width = 120 /\ nodes[6].height = 80
    /\ "expression" \in DOMAIN nodes[6].properties

----------------------------------------------------------------------------
(* Runs of zoom-in steps                                                   *)

\* a to the power n
RECURSIVE RPow(_, _)
RPow(a, n) == IF n = 0 THEN Q(1) ELSE RMul(a, RPow(a, n - 1))

\* C11: n consecutive zoom-in steps from a scale s within [0.1, 5] end at
\* min(5, s * 1.1^n): limiting after every step gives what limiting once at
\* the end gives.
C11_ZoomInRun ==
    /\ RLe(<<1, 10>>, zoomStart) /\ RLe(zoomStart, Q(5))
    /\ scale = RMin(Q(5), RMul(zoomStart, RPow(<<11, 10>>, zoomRun)))

\* C11 witness: a run of three zoom-in steps that began at 4.9 met the limit
\* at its first step and stays at 5.
C11_Witness ==
    /\ zoomStart = <<49, 10>>
    /\ zoomRun = 3
    /\ scale = Q(5)

----------------------------------------------------------------------------
(* The node set                                                            *)

\* C12: the properties of every node of the list include name, description
\* and enabled.
C12_BaseProperties ==
    \A i \in 1..Len(nodes) :
        {"name", "description", "enabled"} \subseteq DOMAIN nodes[i].properties

\* C13: the kind of every node of the list is one of the six kinds.
C13_KindsClosed == \A i \in 1..Len(nodes) : nodes[i].type \in Kinds

----------------------------------------------------------------------------
(* Requests                                                                *)

\* C14: a load that fails leaves the nodes, the connections and the viewport
\* as they were.
C14_FailureKeepsGraph ==
    [][LoadFail => UNCHANGED <<nodes, connections, scale, panX, panY>>]_vars

\* C15: save, run and validate on an empty node list show one warning and
\* nothing else: no request is started, no issue is reported, and the state
\* of the editor stays as it is.
C15_EmptyRejected ==
    [][(Len(nodes) = 0 /\ (SaveStart \/ KeyCtrlS \/ RunStart \/ ValidateScenario)) =>
          /\ Len(notified') = 1
          /\ notified'[1].type = "warning"
          /\ notified'[1].issues = <<>>
          /\ UNCHANGED <<graphVars, viewVars, pointerVars, lastPinchDistance,
                         currentScenario, panelNode, loadQueue, saveVars,
                         pendingRuns>>]_vars

\* C15 witness: after a save that is still pending the workspace was
\* cleared, and a run on the empty workspace was rejected with the warning.
C15_Witness ==
    /\ nodes = <<>>
    /\ pendingSaves = 1
    /\ pendingRuns = 0
    /\ notified = <<Note("Net scenariya dlya zapuska", "warning")>>

\* C16: at most one save and at most one run is in flight.
C16_OneInFlight == pendingSaves <= 1 /\ pendingRuns <= 1

\* C17: when a load completes, the nodes and connections are exactly those
\* of the loaded scenario, and no node that was there before is left, also
\* not one added while the load was pending.
C17_LoadReplaces ==
    [][LoadComplete =>
          /\ nodes' = DemoNodes
          /\ connections' = DemoConnections
          /\ \A i \in 1..Len(nodes) :
                (\A k \in 1..Len(DemoNodes) : nodes[i] # DemoNodes[k]) =>
                    \A j \in 1..Len(nodes') : nodes'[j] # nodes[i]]_vars

\* C17 witness: the load has completed and the node that the properties
\* panel showed is no longer in the list.
C17_Witness ==
    /\ nodes = DemoNodes
    /\ connections = DemoConnections
    /\ panelNode = DETACHED
    /\ notified = <<Note("Scenarij zagruzhen", "success")>>

----------------------------------------------------------------------------
(* Gestures                                                                *)

\* C18: a pinch step that changes the scale keeps the graph point under the
\* pinch anchor a in place: pan' = a - (a - pan) * (scale' / scale).
C18_PinchAnchor ==
    [][\A currentDistance \in Distances, p \in Points :
          (TouchMove2(currentDistance) /\ scale' # scale) =>
            LET ax == Q(p[1] - RectLeft)
                ay == Q(p[2] - RectTop)
                ratio == RDiv(scale', scale)
            IN  /\ panX' = RSub(ax, RMul(RSub(ax, panX), ratio))
                /\ panY' = RSub(ay, RMul(RSub(ay, panY), ratio))]_vars

\* C19: while one finger that came down on empty canvas is down, each
\* touchmove translates the pan by the finger's displacement on the screen.
C19_TouchPan ==
    [][\A p \in Points :
          (TouchMove1(p) /\ selectedNode = NULL /\ ~dragging) =>
            /\ panX' = RAdd(panX, Q(p[1] - touchAt[1][1]))
            /\ panY' = RAdd(panY, Q(p[2] - touchAt[1][2]))]_vars

\* No drag and no pan is in progress.
Idle == ~isPanning /\ ~dragging

C21_DragFollowsPointer ==
    [][/\ \A p \in Points, button \in {0, 1}, ctrlKey \in BOOLEAN :
            LET x == ToGraphX(p[1])
                y == ToGraphY(p[2])
                hit == getNodeAt(x, y)
            IN  (MouseDown(p, button, ctrlKey) /\ hit # NULL) =>
                    /\ selectedNode' = hit /\ dragging'
                    /\ offsetX' = RSub(x, nodes[hit].x)
                    /\ offsetY' = RSub(y, nodes[hit].y)
                    /\ nodes' = nodes
       /\ \A p \in Points :
            /\ (MouseMove(p) /\ dragging /\ Live(nodes, selectedNode)) =>
                /\ Len(nodes') = Len(nodes)
                /\ \A i \in 1..Len(nodes) :
                     nodes'[i] = IF i = selectedNode
                                   THEN [nodes[i] EXCEPT
                                           !.x = RSub(ToGraphX(p[1]), offsetX),
                                           !.y = RSub(ToGraphY(p[2]), offsetY)]
                                   ELSE nodes[i]
                /\ UNCHANGED <<offsetX, offsetY, selectedNode, dragging>>
            /\ (MouseMove(p) /\ selectedNode = NULL) => nodes' = nodes
      ]_vars

\* C21 witness: a node dropped at the first point was grabbed at the second,
\* the view was zoomed out during the drag, and a move back to the first
\* point has put the node at that point's graph position minus the offset.
C21_Witness ==
    /\ dragging /\ selectedNode = 1 /\ Len(nodes) = 1
    /\ scale = <<10, 11>>
    /\ offsetX = Q(110) /\ offsetY = Q(40)
    /\ nodes[1].x = Q(55) /\ nodes[1].y = Q(180)

\* The least and the greatest member of a non-empty set of rationals.
Least(S) == CHOOSE m \in S : \A o \in S : RLe(m, o)
Greatest(S) == CHOOSE m \in S : \A o \in S : RLe(o, m)

\* The centre of the bounding box of all node rectangles.
BoxCenterX ==
    LET I == 1..Len(nodes)
    IN  RDiv(RAdd(Least({nodes[i].x : i \in I}),
                  Greatest({RAdd(nodes[i].x, Q(nodes[i].width)) : i \in I})), Q(2))
BoxCenterY ==
    LET I == 1..Len(nodes)
    IN  RDiv(RAdd(Least({nodes[i].y : i \in I}),
                  Greatest({RAdd(nodes[i].y, Q(nodes[i].height)) : i \in I})), Q(2))

\* C22: centerView() on an empty node set puts the pan at the canvas
\* midpoint; on a non-empty one it sets the pan so that the centre of the
\* bounding box of all node rectangles maps to the canvas midpoint at the
\* current scale; scale, nodes and connections stay as they were.
C22_CenterViewCenters ==
    [][CenterView =>
         /\ UNCHANGED <<scale, nodes, connections>>
         /\ IF Len(nodes) = 0
              THEN /\ panX' = RDiv(Q(CanvasWidth), Q(2))
                   /\ panY' = RDiv(Q(CanvasHeight), Q(2))
              ELSE /\ RAdd(RMul(BoxCenterX, scale), panX') = RDiv(Q(CanvasWidth), Q(2))
                   /\ RAdd(RMul(BoxCenterY, scale), panY') = RDiv(Q(CanvasHeight), Q(2))
      ]_vars

\* C22 witness: the five nodes of the loaded scenario, whose bounding box
\* has its centre at (360, 215), have been centred at scale 10/11.
C22_Witness ==
    /\ Len(nodes) = 5
    /\ scale = <<10, 11>>
    /\ panX = <<800, 11>> /\ panY = <<1150, 11>>

\* A move that pans: onMouseMove takes its isPanning branch.
PanMove(p) == MouseMove(p) /\ isPanning /\ ~(dragging /\ selectedNode # NULL)

\* C27: wheel zoom, pinch zoom, zoomIn, zoomOut, pan and centerView change
\* neither the node list, and so no node's position, nor the connections;
\* zoomIn, zoomOut and pinch zoom leave panX and panY as they were, and a
\* pan leaves the scale as it was.
C27_ViewportFrame ==
    [][/\ (\/ ZoomIn
           \/ ZoomOut
           \/ \E currentDistance \in Distances : TouchMove2(currentDistance)) =>
              UNCHANGED <<nodes, connections, panX, panY>>
       /\ (\/ \E deltaY \in {-100, 100}, p \in Points : Wheel(deltaY, p)
           \/ CenterView) =>
              UNCHANGED <<nodes, connections>>
       /\ \A p \in Points : PanMove(p) => UNCHANGED <<nodes, connections, scale>>
      ]_vars

\* C27 witness: the loaded scenario, its nodes where they were loaded and
\* its connections in place, after one zoom-out step that left the pan
\* where the load had put it.
C27_Witness ==
    /\ nodes = DemoNodes /\ connections = DemoConnections
    /\ scale = <<10, 11>>
    /\ panX = Q(40) /\ panY = Q(85)

\* The ids of the nodes in the list.
NodeIds == {nodes[i].id : i \in 1..Len(nodes)}

\* C23: Delete or Backspace with a node of the list selected removes that
\* node and every connection that has its id as from or to, keeps the other
\* nodes and connections, and clears the selection; with no node selected
\* the key changes neither the nodes nor the connections.
C23_DeleteKey ==
    [][\A key \in {"Delete", "Backspace"} :
          KeyDelete(key) =>
            /\ Live(nodes, selectedNode) =>
                 /\ nodes' = Without(nodes, selectedNode)
                 /\ connections' =
                      SelectSeq(connections,
                                LAMBDA conn : nodes[selectedNode].id \notin {conn.from, conn.to})
                 /\ selectedNode' = NULL
            /\ selectedNode = NULL => UNCHANGED <<nodes, connections, selectedNode>>
      ]_vars

\* C23 witness: the first node of the loaded scenario was grabbed and
\* deleted by the key: it is gone with its connection, nothing is selected,
\* and the drag that the mousedown began has not been ended by a mouseup.
C23_Witness ==
    /\ Len(nodes) = 4 /\ Len(connections) = 3
    /\ 1 \notin NodeIds
    /\ selectedNode = NULL /\ dragging

\* C24: every connection's from and to are ids of nodes in the list.
C24_NoDanglingConnection ==
    \A i \in 1..Len(connections) :
        connections[i].from \in NodeIds /\ connections[i].to \in NodeIds

\* The connections drawConnections draws: those whose ends both resolve.
Drawn == SelectSeq(connections, LAMBDA conn : conn.from \in NodeIds /\ conn.to \in NodeIds)

\* C24 witness: the loaded scenario has lost its first node and the
\* connection that left it, and has gained a dropped node.
C24_Witness ==
    /\ Len(nodes) = 5 /\ Len(connections) = 3
    /\ 1 \notin NodeIds
    /\ Drawn = connections

\* C25: dragging and isPanning are never both true.
C25_ModesExclusive == ~(dragging /\ isPanning)

\* C26: selectedNode is null or one of the nodes in the list.
C26_SelectionLive == selectedNode = NULL \/ Live(nodes, selectedNode)

\* C29: a mouseup or a touchend leaves no node selected, no drag and no pan
\* in progress; Escape, Delete and a confirmed clear leave no node selected;
\* a node comes to be selected only by a mousedown or a touchstart on it;
\* and Delete or Backspace with no node selected, as after a completed
\* click, removes nothing.
C29_SelectionEndsAtMouseUp ==
    [][/\ (MouseUp \/ TouchEnd) =>
            selectedNode' = NULL /\ ~dragging' /\ ~isPanning'
       /\ (KeyEscape \/ ClearWorkspace(TRUE)
             \/ \E key \in {"Delete", "Backspace"} : KeyDelete(key)) =>
            selectedNode' = NULL
       /\ (selectedNode' \notin {NULL, DETACHED} /\ selectedNode' # selectedNode) =>
            \/ \E p \in Points :
                 /\ MouseDown(p, 0, FALSE) \/ MouseDown(p, 1, FALSE) \/ TouchStart1(p)
                 /\ selectedNode' = getNodeAt(ToGraphX(p[1]), ToGraphY(p[2]))
            \/ /\ PanelDelete
               /\ Live(nodes, selectedNode)
               /\ nodes'[selectedNode'] = nodes[selectedNode]
       /\ (selectedNode = NULL /\ \E key \in {"Delete", "Backspace"} : KeyDelete(key)) =>
            UNCHANGED <<nodes, connections>>
      ]_vars

\* C29 witness: a click on a dropped node, 110 to the right of and 40 below
\* its corner, has been completed by a mouseup, and the node is there.
C29_Witness ==
    /\ Len(nodes) = 1
    /\ offsetX = Q(110) /\ offsetY = Q(40)
    /\ selectedNode = NULL /\ ~dragging /\ ~isPanning

\* C28: the first two-finger touchmove of a pinch gesture, that is the
\* first since the fingers of the gesture before it were lifted, leaves the
\* scale as it was and records the distance of the fingers.
C28_PinchStartsAfresh ==
    [][\A currentDistance \in Distances :
          (TouchMove2(currentDistance) /\ ~pinching) =>
            scale' = scale /\ lastPinchDistance' = currentDistance]_vars

\* C30: the submit button is disabled exactly while a handleCreateScenario
\* call waits for its request; a submission that fails leaves the button
\* enabled with its label; when the request settles the button is enabled
\* with its original label in the same step that starts the load, which is
\* then still in flight; and a disabled button is always eventually enabled
\* with its original label.
C30_SubmitButton ==
    /\ [](/\ submitBtn.disabled <=> createQueue # <<>>
          /\ submitBtn.disabled => submitBtn.innerHTML = SubmitSpinner
          /\ ~submitBtn.disabled => submitBtn.innerHTML = SubmitLabel)
    /\ [][/\ \A hasFile \in BOOLEAN, dataId \in FormIds :
               CreateSubmit(hasFile, dataId) => (submitBtn'.disabled <=> ~hasFile)
          /\ CreateDone =>
               /\ submitBtn' = [disabled |-> FALSE, innerHTML |-> SubmitLabel]
               /\ loadQueue' # <<>>]_vars
    /\ [](submitBtn.disabled =>
            <>(~submitBtn.disabled /\ submitBtn.innerHTML = SubmitLabel))

\* C30 witness: a request has settled with success: the button is enabled
\* with its label while the load that the handler started is in flight.
C30_Witness ==
    /\ submitBtn = [disabled |-> FALSE, innerHTML |-> SubmitLabel]
    /\ loadQueue # <<>>
    /\ notified = <<Note("Scenarij sozdan uspeshno", "success"),
                    Note("Zagruzka scenariya...", "info")>>

====
